---- MODULE Spec2Model ----
(***************************************************************************)
(* Model of tensorflow_addons/layers/stochastic_depth.py: the              *)
(* StochasticDepth layer (construction, call, compute_output_shape,        *)
(* get_config) together with the few host operations it calls.             *)
(*                                                                         *)
(* Floats are fixed-point numbers in units of 1/Scale: the float 1.0 is    *)
(* the integer Scale, 0.5 is Scale \div 2.  Tensors are one-dimensional:   *)
(* a tensor is a sequence of fixed-point numbers and its shape is          *)
(* <<Len(t)>>.                                                             *)
(*                                                                         *)
(* Lines 59-62 and 80-83 of the source are written                         *)
(*     assert <condition>:                                                 *)
(*         raise ValueError(<message>)                                     *)
(* and are modelled as the guard they spell out: the condition is          *)
(* evaluated and, when it does not hold, the invocation ends with the      *)
(* error whose message is given.                                           *)
(***************************************************************************)
EXTENDS Integers, Sequences, FiniteSets, TLC

\* ---------------------------------------------------------------- bounds
\* Res: fixed-point resolution (Scale = 2 * Res steps per unit)
\* MaxVal: tensor elements range over 1.0 .. MaxVal
\* MaxLen: tensors have 1 .. MaxLen elements
\* MaxCalls: invocations per behaviour of Spec (all inputs)
\* MaxSeq: invocations per behaviour of SpecHist and SpecConc (probe inputs)
Res == 1
MaxVal == 2
MaxLen == 2
MaxCalls == 1
MaxSeq == 2

Scale == 2 * Res
One == Scale
Half == Res

\* survival probabilities over the documented range [0, 1]
PNums == 0..Scale

\* tensors of n elements whose values cycle through 1.0 .. MaxVal from v
Ramp(n, v) == [i \in 1..n |-> Scale * (((v + i - 2) % MaxVal) + 1)]
Tensors == {Ramp(n, v) : n \in 1..MaxLen, v \in 1..MaxVal}
\* the shortcuts of the pairs tried: one tensor of each shape
Shortcuts == {Ramp(n, 1) : n \in 1..MaxLen}

\* keyword arguments handed through to the base layer
Bases == {[name |-> "stochastic_depth", trainable |-> TRUE],
          [name |-> "gate", trainable |-> FALSE]}

TrainingFlags == {"True", "False", "None"}
Phases == {0, 1}
\* the training argument of an invocation with the host's learning phase at
\* that time; an explicit flag is paired with the phase that disagrees with it
CallModes == {<<"True", 0>>, <<"False", 1>>, <<"None", 0>>, <<"None", 1>>}

\* ---------------------------------------------------------------- state
VARIABLES
    layer,        \* the instance: survival_probability and base-layer config
    constructed,  \* the survival_probability given at construction
    draws,        \* draws consumed from the host's random source
    calls,        \* invocations of call so far
    trainCalls,   \* invocations of call in training mode so far
    last,         \* the last completed operation and what it returned
    ref,          \* an earlier invocation kept for comparison
    frame         \* per thread: the position and locals of a call in progress

vars == <<layer, constructed, draws, calls, trainCalls, last, ref, frame>>

\* ------------------------------------------------------- python values
AsTensor(t) == [kind |-> "tensor", val |-> <<t>>]
AsList(s) == [kind |-> "list", val |-> s]

IsList(x) == x.kind = "list"
PyLen(x) == IF x.kind = "list" THEN Len(x.val) ELSE Len(x.val[1])

Inputs ==
    {AsTensor(t) : t \in Tensors}
    \cup {AsList(<<>>)}
    \cup {AsList(<<t>>) : t \in Tensors}
    \cup {AsList(<<s, r>>) : s \in Shortcuts, r \in Tensors}
    \cup {AsList(<<t, t, t>>) : t \in Tensors}

Shapes == {<<n>> : n \in 1..MaxLen}
ShapeInputs ==
    {AsTensor(s) : s \in Shapes}
    \cup {AsList(<<s>>) : s \in Shapes}
    \cup {AsList(<<s, r>>) : s \in Shapes, r \in Shapes}
    \cup {AsList(<<s, s, s>>) : s \in Shapes}

\* a fixed handful of inputs for the specifications that interleave threads
\* or remember an earlier invocation
Probes ==
    {AsTensor(<<One, One>>),
     AsList(<<<<One, One>>, <<One, One>>>>),
     AsList(<<<<One>>, <<One>>, <<One>>>>)}

NoTensor == <<>>
NoConfig == <<>>
NoLayer == <<>>
NoInput == AsList(<<>>)

\* ------------------------------------------------------ host operations
Max(a, b) == IF a >= b THEN a ELSE b
Shape(t) == <<Len(t)>>
Broadcastable(a, b) == Len(a) = Len(b) \/ Len(a) = 1 \/ Len(b) = 1
Bcast(t, n) == IF Len(t) = n THEN t ELSE [i \in 1..n |-> t[1]]
TensorAdd(a, b) ==
    LET n == Max(Len(a), Len(b))
    IN [i \in 1..n |-> Bcast(a, n)[i] + Bcast(b, n)[i]]
ScalarMul(k, t) == [i \in 1..Len(t) |-> (k * t[i]) \div Scale]

\* faulty variant: a draw that ignores p
random_binomial_any(p) == {0, One}

\* the values a scalar Bernoulli(p) draw can take, as floats 0.0 and 1.0
random_binomial(p) ==
    {b \in {0, One} : (b = One => p > 0) /\ (b = 0 => p < One)}

\* faulty variant: the mode of the previous invocation sticks
in_train_phase_latched(training, phase) ==
    IF last.op = "call" /\ last.err = "none"
    THEN IF last.training = "None" THEN last.phase = 1
         ELSE last.training = "True"
    ELSE IF training = "None" THEN phase = 1 ELSE training = "True"

\* keras in_train_phase: an omitted flag is resolved from the learning phase
in_train_phase(training, phase) ==
    IF training = "None" THEN phase = 1 ELSE training = "True"

Merge(a, b) ==
    [k \in DOMAIN a \cup DOMAIN b |-> IF k \in DOMAIN b THEN b[k] ELSE a[k]]

\* name lookup in a function body: locals is the function of bound names
Resolve(name, locals) ==
    IF name \in DOMAIN locals
    THEN [err |-> "none", val |-> locals[name]]
    ELSE [err |-> "NameError", val |-> NoInput]

\* ------------------------------------------------------ StochasticDepth
\* __init__(self, survival_probability: float = 0.5, **kwargs)
__init__(args) ==
    [survival_probability |->
        IF "survival_probability" \in DOMAIN args
        THEN args["survival_probability"] ELSE Half,
     base |-> [k \in DOMAIN args \ {"survival_probability"} |-> args[k]]]

\* faulty variant: the kept residual is rescaled by 1 / survival_probability
_call_train_rescaled(shortcut, residual, b_l) ==
    IF layer.survival_probability = 0 THEN shortcut
    ELSE TensorAdd(shortcut,
             ScalarMul((b_l * One) \div layer.survival_probability, residual))

_call_train(shortcut, residual, b_l) ==
    TensorAdd(shortcut, ScalarMul(b_l, residual))

\* faulty variant: inference adds the residual unscaled
_call_test_unscaled(self, shortcut, residual) ==
    TensorAdd(shortcut, residual)

_call_test(self, shortcut, residual) ==
    TensorAdd(shortcut, ScalarMul(self.survival_probability, residual))

\* faulty variant: the isinstance guard is missing
check_input_len_only(x) ==
    IF PyLen(x) # 2 THEN "Input must have exactly two entries" ELSE "none"

\* the two guards at the head of call: the error raised, or "none"
check_input(x) ==
    IF ~IsList(x) THEN "Input must be a list"
    ELSE IF PyLen(x) # 2 THEN "Input must have exactly two entries"
    ELSE "none"

\* shortcut, residual = x
Unpack(x) ==
    IF x.kind = "list" THEN x.val
    ELSE [i \in 1..Len(x.val[1]) |-> <<x.val[1][i]>>]

\* the rest of call once b_l is drawn: unpacking, branch and arithmetic
call_return(self, x, training, phase, b_l) ==
    LET shortcut == Unpack(x)[1]
        residual == Unpack(x)[2]
    IN IF ~Broadcastable(shortcut, residual)
       THEN [err |-> "InvalidArgumentError", out |-> NoTensor]
       ELSE [err |-> "none",
             out |-> IF in_train_phase(training, phase)
                     THEN _call_train(shortcut, residual, b_l)
                     ELSE _call_test(self, shortcut, residual)]

\* faulty variant: the gate is drawn before the guards
call_draw_first(self, x, training, phase, b_l) ==
    IF check_input(x) # "none"
    THEN [err |-> check_input(x), out |-> NoTensor, drawn |-> 1]
    ELSE LET r == call_return(self, x, training, phase, b_l)
         IN [err |-> r.err, out |-> r.out, drawn |-> 1]

\* call(self, x, training): the outcome for gate draw b_l and learning phase
\* `phase'; `drawn' is the number of draws the invocation took
call(self, x, training, phase, b_l) ==
    IF check_input(x) # "none"
    THEN [err |-> check_input(x), out |-> NoTensor, drawn |-> 0]
    ELSE LET r == call_return(self, x, training, phase, b_l)
         IN [err |-> r.err, out |-> r.out, drawn |-> 1]

\* compute_output_shape(self, input_shape): its guards test the name x
compute_output_shape(self, input_shape) ==
    LET x == Resolve("x", [self |-> NoInput, input_shape |-> input_shape])
    IN IF x.err # "none"
       THEN [err |-> x.err, out |-> NoTensor]
       ELSE IF ~IsList(x.val)
       THEN [err |-> "Input must be a list", out |-> NoTensor]
       ELSE IF PyLen(x.val) # 2
       THEN [err |-> "Input must have exactly two entries", out |-> NoTensor]
       ELSE [err |-> "none", out |-> input_shape.val[1]]

\* faulty variant: the default is exported instead of the stored value
get_config_default(self) ==
    Merge(self.base, [survival_probability |-> Half])

get_config(self) ==
    LET base_config == self.base
        config == [survival_probability |-> self.survival_probability]
    IN Merge(base_config, config)

Threads == {"t1", "t2"}

NoOp ==
    [op |-> "none", x |-> NoInput, training |-> "None", phase |-> 0,
     b_l |-> 0, err |-> "none", out |-> NoTensor,
     config |-> NoConfig, restored |-> NoLayer]

Idle ==
    [pc |-> "idle", x |-> NoInput, training |-> "None", b_l |-> 0,
     err |-> "none", out |-> NoTensor]

Init ==
    /\ \E p \in PNums, kwargs \in Bases :
         /\ layer = __init__(Merge(kwargs, [survival_probability |-> p]))
         /\ constructed = p
    /\ draws = 0
    /\ calls = 0
    /\ trainCalls = 0
    /\ last = NoOp
    /\ ref = NoOp
    /\ frame = [t \in Threads |-> Idle]

\* ------------------------------------------------- sequential operations
\* one whole invocation layer(x, training=training)
Call(x, training, phase, keep) ==
    /\ \E b_l \in random_binomial(layer.survival_probability) :
         LET r == call(layer, x, training, phase, b_l)
             rec == [NoOp EXCEPT !.op = "call", !.x = x,
                        !.training = training, !.phase = phase,
                        !.b_l = IF r.drawn = 1 THEN b_l ELSE 0,
                        !.err = r.err, !.out = r.out]
         IN /\ last' = rec
            /\ draws' = draws + r.drawn
            /\ ref' = IF keep THEN rec ELSE ref
    /\ calls' = calls + 1
    /\ trainCalls' = trainCalls
                     + (IF in_train_phase(training, phase) THEN 1 ELSE 0)
    /\ UNCHANGED <<layer, constructed, frame>>

ComputeOutputShape(input_shape) ==
    /\ LET r == compute_output_shape(layer, input_shape)
       IN last' = [NoOp EXCEPT !.op = "compute_output_shape",
                      !.x = input_shape, !.err = r.err, !.out = r.out]
    /\ UNCHANGED <<layer, constructed, draws, calls, trainCalls, ref, frame>>

GetConfig ==
    /\ last' = [NoOp EXCEPT !.op = "get_config", !.config = get_config(layer)]
    /\ UNCHANGED <<layer, constructed, draws, calls, trainCalls, ref, frame>>

\* the host rebuilds a layer from an exported configuration: cls(**config)
FromConfig ==
    /\ last.op = "get_config"
    /\ last' = [NoOp EXCEPT !.op = "from_config",
                   !.config = last.config,
                   !.restored = __init__(last.config)]
    /\ UNCHANGED <<layer, constructed, draws, calls, trainCalls, ref, frame>>

Next ==
    \/ /\ calls < MaxCalls
       /\ \E x \in Inputs, m \in CallModes : Call(x, m[1], m[2], FALSE)
    \/ \E input_shape \in ShapeInputs : ComputeOutputShape(input_shape)
    \/ GetConfig
    \/ FromConfig

Spec == Init /\ [][Next]_vars

\* ---------------------------------- invocations that remember an earlier one
NextHist ==
    /\ calls < MaxSeq
    /\ \E x \in Probes, m \in CallModes, keep \in BOOLEAN :
         Call(x, m[1], m[2], keep)

SpecHist == Init /\ [][NextHist]_vars

\* ------------------------------------------- invocations by several threads
\* lines 59-64: the guards and the unpacking of x
CBegin(t, x, training) ==
    /\ frame[t].pc \in {"idle", "returned", "raised"}
    /\ calls < MaxSeq
    /\ calls' = calls + 1
    /\ frame' = [frame EXCEPT ![t] =
                    IF check_input(x) # "none"
                    THEN [Idle EXCEPT !.pc = "raised", !.x = x,
                             !.training = training, !.err = check_input(x)]
                    ELSE [Idle EXCEPT !.pc = "unpacked", !.x = x,
                             !.training = training]]
    /\ UNCHANGED <<layer, constructed, draws, trainCalls, last, ref>>

\* faulty variant: the draw is stored in self.survival_probability
CDrawStoresGate(t) ==
    /\ frame[t].pc = "unpacked"
    /\ \E b_l \in random_binomial(layer.survival_probability) :
         /\ frame' = [frame EXCEPT ![t].pc = "drawn", ![t].b_l = b_l]
         /\ layer' = [layer EXCEPT !.survival_probability = b_l]
    /\ draws' = draws + 1
    /\ UNCHANGED <<constructed, calls, trainCalls, last, ref>>

\* line 67: the gate draw, with the survival_probability read at this moment
CDraw(t) ==
    /\ frame[t].pc = "unpacked"
    /\ \E b_l \in random_binomial(layer.survival_probability) :
         frame' = [frame EXCEPT ![t].pc = "drawn", ![t].b_l = b_l]
    /\ draws' = draws + 1
    /\ UNCHANGED <<layer, constructed, calls, trainCalls, last, ref>>

\* lines 69-77: the branch on the training flag and the arithmetic
CReturn(t, phase) ==
    /\ frame[t].pc = "drawn"
    /\ LET f == frame[t]
           r == call_return(layer, f.x, f.training, phase, f.b_l)
       IN frame' = [frame EXCEPT ![t].pc =
                                    IF r.err = "none" THEN "returned"
                                    ELSE "raised",
                                 ![t].err = r.err, ![t].out = r.out]
    /\ UNCHANGED <<layer, constructed, draws, calls, trainCalls, last, ref>>

NextConc ==
    \/ \E t \in Threads, x \in Probes, training \in TrainingFlags :
         CBegin(t, x, training)
    \/ \E t \in Threads : CDraw(t)
    \/ \E t \in Threads, phase \in Phases : CReturn(t, phase)
    \/ \E input_shape \in ShapeInputs : ComputeOutputShape(input_shape)
    \/ GetConfig
    \/ FromConfig

SpecConc == Init /\ [][NextConc]_vars

\* ------------------------------------------------------------ properties
\* what an invocation record says, read without the layer's own operators
IsCall(rec) == rec.op = "call"
IsTraining(rec) ==
    rec.training = "True" \/ (rec.training = "None" /\ rec.phase = 1)
IsInference(rec) ==
    rec.training = "False" \/ (rec.training = "None" /\ rec.phase = 0)
TwoElementList(x) == x.kind = "list" /\ Len(x.val) = 2
ValidPair(x) == TwoElementList(x) /\ Len(x.val[1]) = Len(x.val[2])
InputErrors == {"Input must be a list", "Input must have exactly two entries"}

\* out = shortcut + k * residual, elementwise, k in units of 1/Scale
IsSum(out, shortcut, k, residual) ==
    /\ Len(out) = Len(shortcut)
    /\ \A i \in 1..Len(shortcut) :
         Scale * out[i] = Scale * shortcut[i] + k * residual[i]

\* C1: an inference-mode invocation on a valid equal-shaped pair returns
\* exactly shortcut + survival_probability * residual, whatever gate value
\* was drawn.
C1_InferenceRescaled ==
    (IsCall(last) /\ ValidPair(last.x) /\ IsInference(last))
        => /\ last.err = "none"
           /\ IsSum(last.out, last.x.val[1], constructed, last.x.val[2])

C1_Witness ==
    /\ IsCall(last) /\ ValidPair(last.x) /\ IsInference(last)
    /\ Len(last.x.val[1]) = 2
    /\ constructed = Half
    /\ last.b_l = 0
    /\ last.out # last.x.val[1]

\* C2: a training-mode invocation on a valid pair draws one scalar gate b in
\* {0, 1} and returns shortcut + b * residual: shortcut in every element when
\* b = 0, shortcut + residual in every element when b = 1.
C2_TrainingGated ==
    (IsCall(last) /\ ValidPair(last.x) /\ IsTraining(last))
        => /\ last.err = "none"
           /\ last.b_l \in {0, One}
           /\ last.b_l = 0 => last.out = last.x.val[1]
           /\ last.b_l = One =>
                IsSum(last.out, last.x.val[1], One, last.x.val[2])

C2_Witness ==
    /\ IsCall(last) /\ ValidPair(last.x) /\ IsTraining(last)
    /\ Len(last.x.val[1]) = 2
    /\ constructed = Half
    /\ last.b_l = One
    /\ last.out # last.x.val[1]

C4_Extremes ==
    (IsCall(last) /\ ValidPair(last.x))
        => /\ constructed = One =>
                /\ last.err = "none"
                /\ IsSum(last.out, last.x.val[1], One, last.x.val[2])
           /\ constructed = 0 =>
                /\ last.err = "none"
                /\ last.out = last.x.val[1]

C4_Witness ==
    /\ IsCall(last) /\ ValidPair(last.x) /\ IsTraining(last)
    /\ constructed = 0
    /\ last.out = last.x.val[1]

\* C5: get_config exports the stored survival_probability under the key
\* survival_probability together with every entry of the base-layer
\* configuration, and a layer rebuilt from that mapping has the
\* survival_probability the original was constructed with.
C5_ConfigRoundTrip ==
    /\ last.op = "get_config" =>
         /\ "survival_probability" \in DOMAIN last.config
         /\ last.config["survival_probability"] = constructed
         /\ \A k \in DOMAIN layer.base :
              k \in DOMAIN last.config /\ last.config[k] = layer.base[k]
    /\ last.op = "from_config" =>
         /\ last.restored.survival_probability = constructed
         /\ last.restored.base = layer.base

C5_Witness ==
    /\ last.op = "from_config"
    /\ constructed = One
    /\ last.restored.survival_probability = One

\* C6: the number of draws consumed equals the number of training-mode
\* invocations (one draw per training-mode invocation, none in inference).
C6_DrawsEqualTrainingCalls == draws = trainCalls

\* C7: survival_probability keeps the value given at construction through
\* every interleaving of invocation steps of several threads,
\* compute_output_shape calls and get_config calls.
C7_SurvivalProbabilityImmutable ==
    layer.survival_probability = constructed

C7_Witness ==
    /\ frame["t1"].pc = "drawn"
    /\ frame["t2"].pc = "raised"
    /\ last.op = "get_config"
    /\ draws = 1

\* C8: compute_output_shape of a two-element list of shapes returns its first
\* element, and the result of call on an equal-shaped pair has the shape of
\* shortcut.
C8_OutputShape ==
    /\ (last.op = "compute_output_shape" /\ TwoElementList(last.x))
         => last.err = "none" /\ last.out = last.x.val[1]
    /\ (IsCall(last) /\ ValidPair(last.x))
         => last.err = "none" /\ Shape(last.out) = Shape(last.x.val[1])

\* C9: the rule an invocation applies depends only on the training flag of
\* that invocation (as given, or as resolved from the learning phase when
\* omitted): after any earlier invocation the result is the gated sum in
\* training and the rescaled sum in inference, and it agrees with the result
\* of an earlier invocation with the same input, flag and gate draw.
C9_ModePerCall ==
    (IsCall(last) /\ ValidPair(last.x)) =>
        /\ IsTraining(last) =>
             IsSum(last.out, last.x.val[1], last.b_l, last.x.val[2])
        /\ IsInference(last) =>
             IsSum(last.out, last.x.val[1], constructed, last.x.val[2])
        /\ (/\ IsCall(ref)
            /\ ref.x = last.x
            /\ IsTraining(ref) = IsTraining(last)
            /\ ref.b_l = last.b_l)
             => ref.out = last.out /\ ref.err = last.err

C9_Witness ==
    /\ calls = 2
    /\ IsCall(ref) /\ ValidPair(ref.x) /\ IsTraining(ref)
    /\ IsCall(last) /\ ValidPair(last.x) /\ IsInference(last)
    /\ constructed = Half
    /\ ref.b_l = One
    /\ ref.out # last.out

\* C10: an invocation rejected by the input guards consumes no draw and
\* leaves the layer unchanged.
C10_RejectionHasNoEffect ==
    [][(calls' = calls + 1 /\ last'.op = "call" /\ last'.err \in InputErrors)
          => (draws' = draws /\ layer' = layer)]_vars

C10_Witness ==
    /\ calls = 2
    /\ draws = 1
    /\ IsCall(last)
    /\ last.err \in InputErrors

====
